---- MODULE Spec2Model ----
(***************************************************************************)
(* Model of pytket-pyquil's backends/forest.py: the job cache, the handle  *)
(* lifecycle and the outcome post-processing of ForestBackend (shots on a  *)
(* Rigetti QuantumComputer) and ForestStateBackend (wavefunction           *)
(* simulator).                                                             *)
(***************************************************************************)
EXTENDS Integers, Sequences, FiniteSets, TLC

\* ---------------------------------------------------------------- bounds
MaxBits == 2      \* classical bits a circuit allocates (register "c" / "ro")
MaxShots == 1     \* largest n_shots of a submission
MaxBatch == 2     \* circuits in one process_circuits call
MaxJobs == 2      \* handles issued over a run (uuid4 draws)
MaxNodes == 3     \* qubits of the device a ForestBackend is built for
MaxLevel == 3     \* largest optimisation_level a caller passes
MaxTerms == 2     \* terms of a QubitPauliOperator

VARIABLES
    cache,     \* ForestBackend._cache: ResultHandle -> dict
    scache,    \* ForestStateBackend._cache: ResultHandle -> dict
    uuid,      \* number of uuid4() values drawn so far
    qam,       \* jobs the QAM has executed; pyquil_handle = index
    sub,       \* history: handle -> what was submitted for it
    got,       \* history: handle -> result of its first successful get_result
    nodata,    \* history: handles whose fetch came back without readout data
    info,      \* ForestBackend._backend_info
    last       \* the last call: operation, arguments, outcome, calls made

vars == <<cache, scache, uuid, qam, sub, got, nodata, info, last>>

\* ------------------------------------------------------ optional values
None == <<>>
Some(x) == <<x>>

\* ------------------------------------------------------------ circuits
\* A circuit: its classical bits 0..nbits-1 (Circuit.bits, in order), the
\* bits its Measure commands write to in command order (any subset of the
\* bits, in any order), and the in-place passes applied to it.
BitSeqs(n) ==
    {s \in UNION {[1..k -> 0..(n - 1)] : k \in 0..n} :
        \A i, j \in DOMAIN s : i # j => s[i] # s[j]}

Circuits ==
    {[nbits |-> n, measures |-> m, passes |-> {}] :
        n \in {MaxBits}, m \in BitSeqs(MaxBits)}

CircuitSet == {c \in Circuits : \A i \in DOMAIN c.measures : c.measures[i] < c.nbits}

n_gates_of_type_Measure(circuit) == Len(circuit.measures)

\* circuit.bits.index(bit): bits are listed in ascending order
bits_index(circuit, bit) == bit

\* SimplifyInitial(allow_classical=False, ...).apply(circuit): in place;
\* measurements are kept because classical replacement is disabled.
SimplifyInitial_apply(circuit) ==
    [circuit EXCEPT !.passes = @ \cup {"SimplifyInitial"}]

\* prepare_circuit(circuit, allow_classical=False): a rewritten copy to run
\* and the pure-classical circuit to apply to the results afterwards.
prepare_circuit(circuit) ==
    << [circuit EXCEPT !.passes = @ \cup {"prepare_circuit"}],
       [n_bits |-> circuit.nbits] >>

\* ------------------------------------------- serialisation of ppcirc
\* Circuit.to_dict / Circuit.from_dict: the bit list of the classical circuit
to_dict(ppcirc) == [bits |-> [i \in 1..ppcirc.n_bits |-> i - 1]]
from_dict(rep) == [n_bits |-> Len(rep.bits)]

DigitStr(n) ==
    CASE n = 0 -> "0" [] n = 1 -> "1" [] n = 2 -> "2" [] n = 3 -> "3"
      [] n = 4 -> "4" [] n = 5 -> "5" [] n = 6 -> "6" [] n = 7 -> "7"
      [] n = 8 -> "8" [] OTHER -> "9"
DigitVal(s) == CHOOSE n \in 0..9 : DigitStr(n) = s

\* json.dumps / json.loads, as token sequences; None is the text null
json_dumps(rep) ==
    IF rep = None THEN <<"null">>
    ELSE <<"{", "bits", "[">>
         \o [i \in 1..Len(rep[1].bits) |-> DigitStr(rep[1].bits[i])]
         \o <<"]", "}">>
json_loads(text) ==
    IF text = <<"null">> THEN None
    ELSE Some([bits |-> [i \in 1..(Len(text) - 5) |-> DigitVal(text[i + 3])]])

\* ResultHandle(uuid4().int, json.dumps(ppcirc_rep))
ResultHandle(id, text) == <<id, text>>

\* variant: the handle always carries the text of None
handle_text_null(ppcirc_rep) == json_dumps(None)

\* the second component of the handle: json.dumps(ppcirc_rep)
handle_text(ppcirc_rep) == json_dumps(ppcirc_rep)

\* ------------------------------------------------------ outcome tables
Pow2(n) == IF n = 0 THEN 1 ELSE IF n = 1 THEN 2 ELSE IF n = 2 THEN 4
           ELSE IF n = 3 THEN 8 ELSE IF n = 4 THEN 16 ELSE IF n = 5 THEN 32
           ELSE IF n = 6 THEN 64 ELSE 128

RECURSIVE PackBits(_, _)
\* numpy.packbits of one row: the first bit is the most significant of a byte
PackBits(row, j) ==
    IF j > Len(row) THEN 0 ELSE row[j] * Pow2(8 - j) + PackBits(row, j + 1)

\* OutcomeArray.from_readouts(readouts): packed rows plus the row width
from_readouts(rows, width) ==
    [width |-> width, packed |-> [r \in 1..Len(rows) |-> PackBits(rows[r], 1)]]

\* column j (1-based) of an OutcomeArray, one bit per shot
Column(oa, j) == [r \in 1..Len(oa.packed) |-> (oa.packed[r] \div Pow2(8 - j)) % 2]

\* BackendResult(shots=..., ppcirc=...)
BackendResult(shots, ppcirc) == [shots |-> shots, ppcirc |-> ppcirc]

\* Backend.empty_result(circuit, n_shots): all-zero table over circuit.bits
empty_result(circuit, n_shots) ==
    BackendResult(
        from_readouts([r \in 1..n_shots |-> [b \in 1..circuit.nbits |-> 0]],
                      circuit.nbits),
        None)

\* raw_shots[:, bit_indices]
FilterColumns(raw, bit_indices) ==
    [r \in 1..Len(raw) |-> [j \in 1..Len(bit_indices) |-> raw[r][bit_indices[j] + 1]]]

RECURSIVE Insert(_, _)
Insert(x, s) ==
    IF s = <<>> THEN <<x>>
    ELSE IF x <= Head(s) THEN <<x>> \o s ELSE <<Head(s)>> \o Insert(x, Tail(s))

RECURSIVE InsertionSort(_)
InsertionSort(s) == IF s = <<>> THEN <<>> ELSE Insert(Head(s), InsertionSort(Tail(s)))

\* variant: the indices are kept in command order
sorted_skipped(s) == s

\* sorted(bit_indices)
sorted(s) == InsertionSort(s)

\* ------------------------------------------------- translation to Quil
\* tk_to_pyquil(c0, return_used_bits=True): the program (its "ro" register,
\* its measurements, the circuit it was made from) and the measured bits
tk_to_pyquil(c0) ==
    << [ro |-> c0.nbits, measures |-> c0.measures, passes |-> c0.passes],
       c0.measures >>

\* ------------------------------------------------------ calls and log
Ev(call, arg) == [call |-> call, arg |-> arg]

Call(op, args, err, ret, trace, raw) ==
    [op |-> op, args |-> args, err |-> err, ret |-> ret, trace |-> trace, raw |-> raw]

Idle == Call("idle", <<>>, "", <<>>, <<>>, None)

\* d[k] = v on a Python dict: a new key is added, an old one overwritten
dict_set(d, k, v) == [x \in DOMAIN d \cup {k} |-> IF x = k THEN v ELSE d[x]]

\* handle in self._cache and "result" in self._cache[handle]
has_result(c, handle) == handle \in DOMAIN c /\ "result" \in DOMAIN c[handle]

\* ------------------------------------------- ForestBackend.process_circuits
\* variant: the entry never gets the eager empty result
cache_entry_deferred(pyquil_handle, bit_indices, circuit, n_shots) ==
    [handle |-> pyquil_handle, bit_indices |-> sorted(bit_indices)]

\* the cache entry written for one circuit
cache_entry(pyquil_handle, bit_indices, circuit, n_shots) ==
    IF n_gates_of_type_Measure(circuit) = 0
    THEN [handle |-> pyquil_handle, bit_indices |-> sorted(bit_indices),
          result |-> empty_result(circuit, n_shots)]
    ELSE [handle |-> pyquil_handle, bit_indices |-> sorted(bit_indices)]

\* variant: the new handle is put in front
append_handle_front(handle_list, handle) == <<handle>> \o handle_list

\* handle_list.append(handle)
append_handle(handle_list, handle) == Append(handle_list, handle)

\* the events that precede translation of circuit i
pre_events(postprocess, simplify_initial, i) ==
    (IF postprocess THEN <<Ev("prepare_circuit", i)>> ELSE <<>>)
    \o (IF simplify_initial THEN <<Ev("SimplifyInitial", i)>> ELSE <<>>)

\* one iteration of the loop over the batch; failStage names the call of
\* this iteration that raises ("" when none does)
process_one(circuit_in, n_shots, postprocess, simplify_initial, failStage, i, st) ==
    LET prep == prepare_circuit(circuit_in)
        ppcirc_rep == IF postprocess THEN Some(to_dict(prep[2])) ELSE None
        circuit == IF simplify_initial THEN SimplifyInitial_apply(circuit_in)
                   ELSE circuit_in
        \* without postprocess c0 is the same object as circuit
        c0 == IF postprocess THEN prep[1] ELSE circuit
        tk == tk_to_pyquil(c0)
        p == tk[1]
        bits == tk[2]
        bit_indices == [k \in 1..Len(bits) |-> bits_index(c0, bits[k])]
        ex == [program |-> p, shots |-> n_shots]
        pyquil_handle == Len(st.qam) + 1
        handle == ResultHandle(st.uuid + 1, handle_text(ppcirc_rep))
        t1 == st.trace \o pre_events(postprocess, simplify_initial, i)
                       \o <<Ev("tk_to_pyquil", i)>>
        t2 == t1 \o <<Ev("native_quil_to_executable", i)>>
        t3 == t2 \o <<Ev("qam.execute", i)>>
    IN  IF failStage = "tk_to_pyquil" THEN [st EXCEPT !.trace = t1, !.err = failStage]
        ELSE IF failStage = "native_quil_to_executable"
        THEN [st EXCEPT !.trace = t2, !.err = failStage]
        ELSE IF failStage = "qam.execute" THEN [st EXCEPT !.trace = t3, !.err = failStage]
        ELSE [cache |-> dict_set(st.cache, handle,
                            cache_entry(pyquil_handle, bit_indices, circuit, n_shots)),
              qam |-> Append(st.qam, ex),
              uuid |-> st.uuid + 1,
              sub |-> dict_set(st.sub, handle,
                               [backend |-> "forest", circuit |-> circuit_in,
                                postprocess |-> postprocess]),
              handle_list |-> append_handle(st.handle_list, handle),
              trace |-> t3 \o <<Ev("cache.set", i)>>,
              err |-> ""]

RECURSIVE process_loop(_, _, _, _, _, _, _)
process_loop(circuits, n_shots, postprocess, simplify_initial, fail, i, st) ==
    IF i > Len(circuits) \/ st.err # "" THEN st
    ELSE process_loop(circuits, n_shots, postprocess, simplify_initial, fail, i + 1,
            process_one(circuits[i], n_shots, postprocess, simplify_initial,
                        IF fail.at = i THEN fail.stage ELSE "", i, st))

Batches(n) == UNION {[1..k -> CircuitSet] : k \in 0..n}

Min(a, b) == IF a < b THEN a ELSE b

ForestStages == {"tk_to_pyquil", "native_quil_to_executable", "qam.execute"}

\* no call of the loop raises
NoFail == [at |-> 0, stage |-> ""]

\* which call of the loop raises, if any: a call of iteration `at`
Fails(circuits, stages) ==
    {NoFail} \cup {[at |-> i, stage |-> s] : i \in DOMAIN circuits, s \in stages}

\* the first circuit of the batch that fails a required predicate, if any
Invalids(circuits) == {None} \cup {Some(i) : i \in DOMAIN circuits}

\* if valid_check: self._check_all_circuits(circuits) raises
check_all_circuits_raises(valid_check, invalid) == valid_check /\ invalid # None

\* variant: the predicates are checked after the loop over the batch
process_circuits_outcome_check_last(raises, st0, st) ==
    IF raises /\ st.err = "" THEN [st EXCEPT !.err = "CircuitNotValidError"] ELSE st

\* variant: a failure inside the loop restores the cache
process_circuits_outcome_rolled_back(raises, st0, st) ==
    IF raises THEN [st0 EXCEPT !.err = "CircuitNotValidError"]
    ELSE IF st.err # "" THEN [st0 EXCEPT !.err = st.err, !.trace = st.trace]
    ELSE st

\* the state the call leaves: st0 as it was on entry when the check of the
\* batch raises, otherwise st as the loop left it, failed or not
process_circuits_outcome(raises, st0, st) ==
    IF raises THEN [st0 EXCEPT !.err = "CircuitNotValidError"] ELSE st

ForestBackend_process_circuits ==
    /\ last = Idle
    /\ UNCHANGED info
    /\ \E circuits \in Batches(Min(MaxBatch, MaxJobs - uuid)),
       n_shots \in 1..MaxShots,
       valid_check, postprocess, simplify_initial \in BOOLEAN :
      \E invalid \in Invalids(circuits) :
      \E fail \in IF check_all_circuits_raises(valid_check, invalid) THEN {NoFail}
                  ELSE Fails(circuits, ForestStages) :
        LET args == [circuits |-> circuits, n_shots |-> n_shots,
                     valid_check |-> valid_check, postprocess |-> postprocess,
                     simplify_initial |-> simplify_initial, invalid |-> invalid]
            st0 == [cache |-> cache, qam |-> qam, uuid |-> uuid, sub |-> sub,
                    handle_list |-> <<>>, trace |-> <<>>, err |-> ""]
            st == process_loop(circuits, n_shots, postprocess, simplify_initial,
                               fail, 1, st0)
            out == process_circuits_outcome(
                       check_all_circuits_raises(valid_check, invalid), st0, st)
        IN  /\ cache' = out.cache
            /\ qam' = out.qam
            /\ uuid' = out.uuid
            /\ sub' = out.sub
            /\ last' = Call("process_circuits", args, out.err,
                            IF out.err = "" THEN out.handle_list ELSE <<>>,
                            out.trace, None)
            /\ UNCHANGED <<scache, got, nodata>>

\* --------------------------------------------- handles a caller may pass
NullText == json_dumps(None)
OtherText(h) == IF h[2] = NullText THEN json_dumps(Some(to_dict([n_bits |-> 0])))
                ELSE NullText

\* handles of ForestBackend's type (int, str): the issued ones, the same
\* identifiers with another second component, and one never issued
ForestHandles ==
    DOMAIN cache
    \cup {ResultHandle(h[1], OtherText(h)) : h \in DOMAIN cache}
    \cup {ResultHandle(0, NullText)}

\* handles of ForestStateBackend's type (int,)
StateHandles == DOMAIN scache \cup {<<0>>}

\* -------------------------------------------- ForestBackend.circuit_status
\* variant: any cached handle counts as completed
circuit_status_outcome_known(c, handle) ==
    IF handle \in DOMAIN c THEN "COMPLETED" ELSE "CircuitNotRunError"

\* variant: the two errors are raised the other way round
circuit_status_outcome_swapped(c, handle) ==
    IF has_result(c, handle) THEN "COMPLETED"
    ELSE IF handle \in DOMAIN c THEN "CircuitNotRunError"
    ELSE "PyQuilJobStatusUnavailable"

circuit_status_outcome(c, handle) ==
    IF has_result(c, handle) THEN "COMPLETED"
    ELSE IF handle \in DOMAIN c THEN "PyQuilJobStatusUnavailable"
    ELSE "CircuitNotRunError"

ForestBackend_circuit_status ==
    /\ last = Idle
    /\ UNCHANGED info
    /\ \E handle \in ForestHandles \cup StateHandles :
        LET out == circuit_status_outcome(cache, handle)
        IN  /\ last' = IF out = "COMPLETED"
                       THEN Call("circuit_status", [handle |-> handle], "",
                                 Some(out), <<>>, None)
                       ELSE Call("circuit_status", [handle |-> handle], out,
                                 <<>>, <<>>, None)
            /\ UNCHANGED <<cache, scache, uuid, qam, sub, got, nodata>>

\* ------------------------------------------------ ForestBackend.get_result
\* what qam.get_result(pyquil_handle).readout_data["ro"] may hold: nothing,
\* or one row per shot with one column per bit of the "ro" register
Readouts(ex) ==
    {None} \cup {Some(m) : m \in [1..ex.shots -> [1..ex.program.ro -> {0, 1}]]}

\* variant: the cached result is never looked at
super_get_result_hit_never(c, handle) == FALSE

\* Backend.get_result(handle) of the base class finds a cached result
super_get_result_hit(c, handle) == has_result(c, handle)

\* variant: the membership test is missing, the entry lookup raises
get_result_miss_outcome_unchecked(c, handle) ==
    IF handle \notin DOMAIN c THEN "KeyError" ELSE "fetch"

\* after a miss in the base class: unknown handles are refused, known
\* ones are fetched from the QAM
get_result_miss_outcome(c, handle) ==
    IF handle \notin DOMAIN c THEN "CircuitNotRunError" ELSE "fetch"

\* the result built from the fetched readout
build_result(c, handle, raw_shots) ==
    LET filtered == FilterColumns(raw_shots, c[handle].bit_indices)
        shots == from_readouts(filtered, Len(c[handle].bit_indices))
        ppcirc_rep == json_loads(handle[2])
        ppcirc == IF ppcirc_rep # None THEN Some(from_dict(ppcirc_rep[1])) ELSE None
    IN  BackendResult(shots, ppcirc)

\* variant: the fetched result is returned but not stored
cache_update_result_dropped(c, handle, res) == c

\* variant: the entry is replaced by one that holds only the result
cache_update_result_replaced(c, handle, res) == [c EXCEPT ![handle] = [result |-> res]]

\* self._cache[handle].update({"result": res})
cache_update_result(c, handle, res) ==
    [c EXCEPT ![handle] = [handle |-> @.handle, bit_indices |-> @.bit_indices,
                           result |-> res]]

\* variant: a placeholder result is stored when the readout is missing
cache_after_no_data_placeholder(c, handle) ==
    cache_update_result(c, handle, BackendResult(from_readouts(<<>>, 0), None))

\* raw_shots is None: ValueError is raised before anything is stored
cache_after_no_data(c, handle) == c

Remember(g, handle, res) == IF handle \in DOMAIN g THEN g ELSE g @@ (handle :> res)

ForestBackend_get_result ==
    /\ last = Idle
    /\ UNCHANGED info
    /\ \E handle \in ForestHandles :
        LET args == [handle |-> handle] IN
        IF super_get_result_hit(cache, handle)
        THEN /\ last' = Call("get_result", args, "", Some(cache[handle].result),
                             <<>>, None)
             /\ got' = Remember(got, handle, cache[handle].result)
             /\ UNCHANGED <<cache, scache, uuid, qam, sub, nodata>>
        ELSE IF get_result_miss_outcome(cache, handle) # "fetch"
        THEN /\ last' = Call("get_result", args, get_result_miss_outcome(cache, handle),
                             <<>>, <<>>, None)
             /\ UNCHANGED <<cache, scache, uuid, qam, sub, got, nodata>>
        ELSE LET pyquil_handle == cache[handle].handle
                 fetch == <<Ev("qam.get_result", pyquil_handle)>>
             IN  \E raw_shots \in Readouts(qam[pyquil_handle]) :
                    IF raw_shots = None
                    THEN /\ last' = Call("get_result", args, "ValueError", <<>>,
                                         fetch, raw_shots)
                         /\ cache' = cache_after_no_data(cache, handle)
                         /\ nodata' = nodata \cup {handle}
                         /\ UNCHANGED <<scache, uuid, qam, sub, got>>
                    ELSE LET res == build_result(cache, handle, raw_shots[1])
                         IN  /\ cache' = cache_update_result(cache, handle, res)
                             /\ got' = Remember(got, handle, res)
                             /\ last' = Call("get_result", args, "", Some(res),
                                             fetch, raw_shots)
                             /\ UNCHANGED <<scache, uuid, qam, sub, nodata>>

\* --------------------------------------- ForestStateBackend.process_circuits
\* BackendResult(q_bits=res_qubits, state=state) for the program simulated
state_result(p) == [state |-> p]

state_one(circuit, failStage, i, st) ==
    LET p == tk_to_pyquil(circuit)[1]
        handle == <<st.uuid + 1>>
        t1 == st.trace \o <<Ev("tk_to_pyquil", i)>>
        t2 == t1 \o <<Ev("wavefunction", i)>>
    IN  IF failStage = "tk_to_pyquil" THEN [st EXCEPT !.trace = t1, !.err = failStage]
        ELSE IF failStage = "wavefunction"
        THEN [st EXCEPT !.trace = t2, !.err = failStage]
        ELSE [cache |-> dict_set(st.cache, handle, [result |-> state_result(p)]),
              uuid |-> st.uuid + 1,
              sub |-> dict_set(st.sub, handle,
                               [backend |-> "state", circuit |-> circuit,
                                postprocess |-> FALSE]),
              handle_list |-> append_handle(st.handle_list, handle),
              trace |-> t2 \o <<Ev("cache.set", i)>>,
              err |-> ""]

RECURSIVE state_loop(_, _, _, _)
state_loop(circuits, fail, i, st) ==
    IF i > Len(circuits) \/ st.err # "" THEN st
    ELSE state_loop(circuits, fail, i + 1,
            state_one(circuits[i], IF fail.at = i THEN fail.stage ELSE "", i, st))

StateStages == {"tk_to_pyquil", "wavefunction"}

ForestStateBackend_process_circuits ==
    /\ last = Idle
    /\ UNCHANGED info
    /\ \E circuits \in Batches(Min(MaxBatch, MaxJobs - uuid)), valid_check \in BOOLEAN :
      \E invalid \in Invalids(circuits) :
      \E fail \in IF check_all_circuits_raises(valid_check, invalid) THEN {NoFail}
                  ELSE Fails(circuits, StateStages) :
        LET args == [circuits |-> circuits, valid_check |-> valid_check,
                     invalid |-> invalid]
            st0 == [cache |-> scache, uuid |-> uuid, sub |-> sub,
                    handle_list |-> <<>>, trace |-> <<>>, err |-> ""]
            st == state_loop(circuits, fail, 1, st0)
            out == process_circuits_outcome(
                       check_all_circuits_raises(valid_check, invalid), st0, st)
        IN  /\ scache' = out.cache
            /\ uuid' = out.uuid
            /\ sub' = out.sub
            /\ last' = Call("state.process_circuits", args, out.err,
                            IF out.err = "" THEN out.handle_list ELSE <<>>,
                            out.trace, None)
            /\ UNCHANGED <<cache, qam, got, nodata>>

\* ---------------------------------------- ForestStateBackend.circuit_status
state_circuit_status_outcome(c, handle) ==
    IF handle \in DOMAIN c THEN "COMPLETED" ELSE "CircuitNotRunError"

ForestStateBackend_circuit_status ==
    /\ last = Idle
    /\ UNCHANGED info
    /\ \E handle \in StateHandles \cup ForestHandles :
        LET out == state_circuit_status_outcome(scache, handle)
        IN  /\ last' = IF out = "COMPLETED"
                       THEN Call("state.circuit_status", [handle |-> handle], "",
                                 Some(out), <<>>, None)
                       ELSE Call("state.circuit_status", [handle |-> handle], out,
                                 <<>>, <<>>, None)
            /\ UNCHANGED <<cache, scache, uuid, qam, sub, got, nodata>>

\* ------------------------------------------------------ backend info
\* ForestBackend._get_backend_info(qc): the architecture of the device and
\* its averaged gate errors (process_characterisation, get_avg_characterisation)
Edges == {e \in (0..(MaxNodes - 1)) \X (0..(MaxNodes - 1)) : e[1] < e[2]}
ErrorLevels == {"low", "high"}
get_backend_info(qc) ==
    [architecture |-> qc.edges,
     averaged_node_gate_errors |-> qc.node_errors,
     averaged_edge_gate_errors |-> qc.link_errors]
QuantumComputers ==
    [edges : SUBSET Edges, node_errors : ErrorLevels, link_errors : ErrorLevels]
FullDevice == [edges |-> Edges, node_errors |-> "low", link_errors |-> "low"]

\* ------------------------------------------------- compilation passes
\* a pass: its class, its keyword options, and for placement and routing
\* the architecture and the error rates that weight the placement
Pass(name, opts, arch, weights) ==
    [name |-> name, opts |-> opts, arch |-> arch, weights |-> weights]
Plain(name) == Pass(name, {}, {}, <<>>)

\* ForestBackend.rebase_pass(): AutoRebase({OpType.CZ, OpType.Rz, OpType.Rx})
rebase_pass == Pass("AutoRebase", {"CZ", "Rz", "Rx"}, {}, <<>>)

\* ForestStateBackend.rebase_pass()
state_rebase_pass == Pass("AutoRebase", {"CZ", "Rz", "Rx"}, {}, <<>>)

EulerAngleReduction == Pass("EulerAngleReduction", {"Rx", "Rz"}, {}, <<>>)

\* variant: assert optimisation_level in range(4)
level_ok_wide(optimisation_level) == optimisation_level \in 0..3

\* assert optimisation_level in range(3)
level_ok(optimisation_level) == optimisation_level \in 0..2

\* the level-dependent pass after DecomposeBoxes and FlattenRegisters
first_optimisation(optimisation_level) ==
    IF optimisation_level = 1 THEN <<Plain("SynthesiseTket")>>
    ELSE IF optimisation_level = 2 THEN <<Plain("FullPeepholeOptimise")>>
    ELSE <<>>

\* variant: the routing pass places naively below level 2
routing_passes_naive_below_2(binfo, optimisation_level) ==
    << IF optimisation_level = 2
       THEN Pass("CXMappingPass",
                 {"NoiseAwarePlacement", "directed_cx=False", "delay_measures=True"},
                 binfo.architecture,
                 <<binfo.averaged_node_gate_errors, binfo.averaged_edge_gate_errors>>)
       ELSE Pass("CXMappingPass",
                 {"Placement", "directed_cx=False", "delay_measures=True"},
                 binfo.architecture, <<>>),
       Pass("NaivePlacementPass", {}, binfo.architecture, <<>>) >>

\* CXMappingPass(architecture, NoiseAwarePlacement(architecture, node errors,
\* edge errors), directed_cx=False, delay_measures=True), then
\* NaivePlacementPass(architecture): the same at every level
routing_passes(binfo, optimisation_level) ==
    << Pass("CXMappingPass",
            {"NoiseAwarePlacement", "directed_cx=False", "delay_measures=True"},
            binfo.architecture,
            <<binfo.averaged_node_gate_errors, binfo.averaged_edge_gate_errors>>),
       Pass("NaivePlacementPass", {}, binfo.architecture, <<>>) >>

\* variant: the two passes are added at every level
post_routing_passes_always(optimisation_level) ==
    << Pass("KAKDecomposition", {"allow_swaps=False"}, {}, <<>>),
       Pass("CliffordSimp", {"allow_swaps=False"}, {}, <<>>) >>

\* connectivity preserving optimisations after routing, at level 2
post_routing_passes(optimisation_level) ==
    IF optimisation_level = 2
    THEN << Pass("KAKDecomposition", {"allow_swaps=False"}, {}, <<>>),
            Pass("CliffordSimp", {"allow_swaps=False"}, {}, <<>>) >>
    ELSE <<>>

\* variant: the synthesis after routing is done at level 2 only
post_routing_synthesis_level_2(optimisation_level) ==
    IF optimisation_level = 2 THEN <<Plain("SynthesiseTket")>> ELSE <<>>

\* if optimisation_level > 0: passlist.append(SynthesiseTket())
post_routing_synthesis(optimisation_level) ==
    IF optimisation_level > 0 THEN <<Plain("SynthesiseTket")>> ELSE <<>>

\* variant: the Euler-angle reduction is put before the rebase
final_passes_euler_first(optimisation_level) ==
    (IF optimisation_level > 0 THEN <<EulerAngleReduction>> ELSE <<>>)
    \o <<rebase_pass>>

\* the rebase, then the Euler-angle reduction above level 0
final_passes(optimisation_level) ==
    <<rebase_pass>>
    \o (IF optimisation_level > 0 THEN <<EulerAngleReduction>> ELSE <<>>)

\* ForestBackend.default_compilation_pass: the passlist of the SequencePass
passlist(binfo, optimisation_level) ==
    <<Plain("DecomposeBoxes"), Plain("FlattenRegisters")>>
    \o first_optimisation(optimisation_level)
    \o routing_passes(binfo, optimisation_level)
    \o post_routing_passes(optimisation_level)
    \o post_routing_synthesis(optimisation_level)
    \o final_passes(optimisation_level)

\* ForestStateBackend.default_compilation_pass: the passlist
state_passlist(optimisation_level) ==
    <<Plain("DecomposeBoxes"), Plain("FlattenRegisters")>>
    \o first_optimisation(optimisation_level)
    \o <<state_rebase_pass>>
    \o (IF optimisation_level > 0 THEN <<EulerAngleReduction>> ELSE <<>>)

\* the constructor calls made while a passlist is built, in order
constructed(passes) == [k \in DOMAIN passes |-> Ev(passes[k].name, k)]

Levels == (0 - 1)..MaxLevel

ForestBackend_default_compilation_pass ==
    /\ last = Idle
    /\ \E optimisation_level \in Levels :
          LET args == [optimisation_level |-> optimisation_level] IN
          last' = IF ~level_ok(optimisation_level)
                  THEN Call("default_compilation_pass", args, "AssertionError",
                            <<>>, <<>>, None)
                  ELSE Call("default_compilation_pass", args, "",
                            Some(passlist(info, optimisation_level)),
                            constructed(passlist(info, optimisation_level)), None)
    /\ UNCHANGED <<cache, scache, uuid, qam, sub, got, nodata, info>>

ForestStateBackend_default_compilation_pass ==
    /\ last = Idle
    /\ \E optimisation_level \in Levels :
          LET args == [optimisation_level |-> optimisation_level] IN
          last' = IF ~level_ok(optimisation_level)
                  THEN Call("state.default_compilation_pass", args, "AssertionError",
                            <<>>, <<>>, None)
                  ELSE Call("state.default_compilation_pass", args, "",
                            Some(state_passlist(optimisation_level)),
                            constructed(state_passlist(optimisation_level)), None)
    /\ UNCHANGED <<cache, scache, uuid, qam, sub, got, nodata, info>>

\* ------------------------------------------------- expectation values
\* Qubit(reg_name, index): one in the default register, one in another
\* register, one with a two-dimensional index
Qubits ==
    {[reg_name |-> "q", index |-> <<0>>],
     [reg_name |-> "r", index |-> <<0>>],
     [reg_name |-> "q", index |-> <<0, 0>>]}

Paulis == {"X", "Z"}

\* QubitPauliString.map: a Pauli for each qubit of some set of qubits
QubitPauliStrings == UNION {[S -> Paulis] : S \in SUBSET Qubits}

\* QubitPauliOperator._dict: a coefficient for each of a few strings
RECURSIVE SubsetsUpTo(_, _)
SubsetsUpTo(S, k) ==
    IF k = 0 THEN {{}}
    ELSE LET P == SubsetsUpTo(S, k - 1) IN P \cup {T \cup {x} : T \in P, x \in S}

QubitPauliOperators ==
    UNION {[T -> {1, 2}] : T \in SubsetsUpTo(QubitPauliStrings, MaxTerms)}

\* a circuit that prepares a state: it measures nothing
StateCircuits == {c \in CircuitSet : c.measures = <<>>}

\* variant: the register name of the qubit is not looked at
default_q_index_ok_any_register(q) == Len(q.index) = 1

\* _default_q_index(q) returns (does not raise ValueError)
default_q_index_ok(q) == ~(q.reg_name # "q" \/ Len(q.index) # 1)

\* _default_q_index(q): int(q.index[0])
default_q_index(q) == q.index[1]

\* _gen_PauliTerm(term, coeff): ID() * coeff times a factor per qubit of the
\* string; None when _default_q_index raises for one of them
gen_PauliTerm(term, coeff) ==
    IF \A q \in DOMAIN term : default_q_index_ok(q)
    THEN Some([coeff |-> coeff,
               factors |-> {<<default_q_index(q), term[q]>> : q \in DOMAIN term}])
    ELSE None

\* PauliSum([_gen_PauliTerm(term, coeff) for term, coeff in operator._dict.items()])
gen_PauliSum(operator) ==
    IF \A term \in DOMAIN operator : gen_PauliTerm(term, operator[term]) # None
    THEN Some({gen_PauliTerm(term, operator[term])[1] : term \in DOMAIN operator})
    ELSE None

ExpectationStages == {"", "tk_to_pyquil", "expectation"}

\* the body shared by the two methods: translate, build the observable,
\* ask the simulator; failStage names the external call that raises
expectation_call(op, args, state_circuit, observable, failStage) ==
    LET prog == tk_to_pyquil(state_circuit)[1]
        t1 == <<Ev("tk_to_pyquil", 1)>>
        t2 == t1 \o <<Ev("expectation", 1)>>
    IN  IF failStage = "tk_to_pyquil" THEN Call(op, args, failStage, <<>>, t1, None)
        ELSE IF observable = None THEN Call(op, args, "ValueError", <<>>, t1, None)
        ELSE IF failStage = "expectation"
        THEN Call(op, args, failStage, <<>>, t2, None)
        ELSE Call(op, args, "", Some([prog |-> prog, observable |-> observable[1]]),
                  t2, None)

ForestStateBackend_get_pauli_expectation_value ==
    /\ last = Idle
    /\ \E state_circuit \in StateCircuits, pauli \in QubitPauliStrings,
          failStage \in ExpectationStages :
          last' = expectation_call("get_pauli_expectation_value",
                      [state_circuit |-> state_circuit, terms |-> {pauli}],
                      state_circuit,
                      IF gen_PauliTerm(pauli, 1) = None THEN None
                      ELSE Some({gen_PauliTerm(pauli, 1)[1]}),
                      failStage)
    /\ UNCHANGED <<cache, scache, uuid, qam, sub, got, nodata, info>>

ForestStateBackend_get_operator_expectation_value ==
    /\ last = Idle
    /\ \E state_circuit \in StateCircuits, operator \in QubitPauliOperators,
          failStage \in ExpectationStages :
          last' = expectation_call("get_operator_expectation_value",
                      [state_circuit |-> state_circuit, terms |-> DOMAIN operator],
                      state_circuit, gen_PauliSum(operator), failStage)
    /\ UNCHANGED <<cache, scache, uuid, qam, sub, got, nodata, info>>

\* ------------------------------------------------------- specification
Init ==
    /\ info = get_backend_info(FullDevice)
    /\ cache = <<>>
    /\ scache = <<>>
    /\ uuid = 0
    /\ qam = <<>>
    /\ sub = <<>>
    /\ got = <<>>
    /\ nodata = {}
    /\ last = Idle

\* the caller takes the outcome of the call and goes on
Return ==
    /\ last # Idle
    /\ last' = Idle
    /\ UNCHANGED <<cache, scache, uuid, qam, sub, got, nodata, info>>

Next ==
    \/ ForestBackend_process_circuits
    \/ ForestBackend_circuit_status
    \/ ForestBackend_get_result
    \/ ForestStateBackend_process_circuits
    \/ ForestStateBackend_circuit_status
    \/ Return

Spec == Init /\ [][Next]_vars

\* the backends right after construction, for any device, and the calls
\* that read the backend without touching the job cache
InitPure ==
    /\ info \in {get_backend_info(qc) : qc \in QuantumComputers}
    /\ cache = <<>>
    /\ scache = <<>>
    /\ uuid = 0
    /\ qam = <<>>
    /\ sub = <<>>
    /\ got = <<>>
    /\ nodata = {}
    /\ last = Idle

NextPure ==
    \/ ForestBackend_default_compilation_pass
    \/ ForestStateBackend_default_compilation_pass
    \/ ForestStateBackend_get_pauli_expectation_value
    \/ ForestStateBackend_get_operator_expectation_value
    \/ Return

SpecPure == InitPure /\ [][NextPure]_vars

\* =========================================================== properties
Registered(h) == h \in DOMAIN sub /\ sub[h].backend = "forest"
Measured(h) == Len(sub[h].circuit.measures)
Job(h) == qam[cache[h].handle]
IsFetch(trace) == Len(trace) = 1 /\ trace[1].call = "qam.get_result"

\* C1: a circuit without measurements submitted through
\* ForestBackend.process_circuits, whatever postprocess and simplify_initial
\* are, has a result in its cache entry from the moment process_circuits
\* returns (the empty result), and get_result on its handle returns that
\* result without a call of qam.get_result.
C1_EagerEmptyResult ==
    /\ \A h \in DOMAIN sub :
          (Registered(h) /\ Measured(h) = 0) =>
              /\ has_result(cache, h)
              /\ cache[h].result = empty_result(sub[h].circuit, Job(h).shots)
    /\ (last.op = "get_result" /\ Registered(last.args.handle)
            /\ Measured(last.args.handle) = 0) =>
          /\ last.err = ""
          /\ last.trace = <<>>
          /\ last.ret = Some(empty_result(sub[last.args.handle].circuit,
                                          Job(last.args.handle).shots))

C1_Witness ==
    /\ last.op = "get_result"
    /\ Registered(last.args.handle)
    /\ Measured(last.args.handle) = 0
    /\ sub[last.args.handle].postprocess
    /\ last.err = ""

\* C2: once get_result(h) has succeeded, every later get_result(h), whatever
\* was submitted, queried or fetched in between, succeeds with the same
\* BackendResult as the first time and calls nothing on the target.
C2_GetResultIdempotent ==
    [][(last'.op = "get_result" /\ last'.args.handle \in DOMAIN got) =>
          /\ last'.err = ""
          /\ last'.ret = Some(got[last'.args.handle])
          /\ last'.trace = <<>>]_vars

C2_Witness ==
    /\ last.op = "get_result"
    /\ last.args.handle \in DOMAIN got
    /\ last.args.handle[1] = 1
    /\ Measured(last.args.handle) > 0
    /\ last.trace = <<>>
    /\ last.ret = Some(got[last.args.handle])
    /\ Cardinality(DOMAIN cache) = 2
    /\ Cardinality(DOMAIN got) = 2

C4_StatusErrorsDistinct ==
    last.op = "circuit_status" =>
        /\ (Registered(last.args.handle) /\ ~has_result(cache, last.args.handle))
              => last.err = "PyQuilJobStatusUnavailable"
        /\ ~Registered(last.args.handle) => last.err = "CircuitNotRunError"
        /\ last.err = "PyQuilJobStatusUnavailable" => Registered(last.args.handle)
        /\ last.err = "CircuitNotRunError" => ~Registered(last.args.handle)

C4_Witness ==
    /\ last.op = "circuit_status"
    /\ last.err = "PyQuilJobStatusUnavailable"
    /\ ResultHandle(last.args.handle[1], OtherText(last.args.handle)) \notin DOMAIN cache
    /\ last.args.handle \in nodata

\* the j-th smallest element of a finite set of numbers
NthSmallest(S, j) == CHOOSE x \in S : Cardinality({y \in S : y < x}) = j - 1
MeasuredBits(h) == {sub[h].circuit.measures[i] : i \in DOMAIN sub[h].circuit.measures}

\* C5: when get_result builds a result from a fetched readout, the outcome
\* table has one column per bit the circuit's measurements write to, and
\* column j is the raw readout column of the j-th smallest of those bits in
\* the circuit's bit order; one row per shot.
C5_MeasuredColumns ==
    (last.op = "get_result" /\ last.err = "" /\ IsFetch(last.trace)) =>
        LET h == last.args.handle
            S == MeasuredBits(h)
            table == last.ret[1].shots
            raw == last.raw[1]
        IN  /\ table.width = Cardinality(S)
            /\ Len(table.packed) = Len(raw)
            /\ \A j \in 1..Cardinality(S) :
                  Column(table, j) =
                      [r \in 1..Len(raw) |-> raw[r][NthSmallest(S, j) + 1]]

C5_Witness ==
    /\ last.op = "get_result"
    /\ last.err = ""
    /\ IsFetch(last.trace)
    /\ sub[last.args.handle].circuit.measures = <<MaxBits - 1, 0>>
    /\ last.raw[1][1][1] = 1
    /\ last.raw[1][1][MaxBits] = 0
    /\ Column(last.ret[1].shots, 1)[1] = 1

C7_NoDataNoWrite ==
    [][/\ (last'.op = "get_result" /\ IsFetch(last'.trace) /\ last'.raw = None) =>
            /\ last'.err = "ValueError"
            /\ cache' = cache
            /\ ~has_result(cache', last'.args.handle)
       /\ (last'.op = "circuit_status" /\ last'.args.handle \in nodata
               /\ last'.args.handle \notin DOMAIN got) =>
            last'.err = "PyQuilJobStatusUnavailable"
       /\ (last'.op = "get_result" /\ last'.args.handle \in nodata
               /\ last'.args.handle \notin DOMAIN got) =>
            /\ IsFetch(last'.trace)
            /\ last'.trace[1].arg = cache[last'.args.handle].handle]_vars

C7_Witness ==
    /\ last.op = "get_result"
    /\ last.args.handle \in nodata
    /\ last.err = ""
    /\ IsFetch(last.trace)
    /\ last.raw # None

\* C8: the result of a cache entry, once present, is never replaced or
\* removed by any operation, in ForestBackend's cache (fetched results and
\* eager empty results) and in ForestStateBackend's.
C8_ResultWrittenOnce ==
    [][/\ \A h \in DOMAIN cache :
            has_result(cache, h) =>
                (has_result(cache', h) /\ cache'[h].result = cache[h].result)
       /\ \A h \in DOMAIN scache :
            has_result(scache, h) =>
                (has_result(scache', h) /\ scache'[h].result = scache[h].result)]_vars

C8_Witness ==
    /\ last.op = "get_result"
    /\ last.err = ""
    /\ Registered(last.args.handle)
    /\ Measured(last.args.handle) = 0
    /\ last.ret = Some(cache[last.args.handle].result)
    /\ \E g \in DOMAIN got :
          g # last.args.handle /\ Measured(g) > 0 /\ has_result(cache, g)

\* C9: process_circuits of either backend returns one handle per circuit,
\* the i-th for the i-th circuit, and handles circuit i completely
\* (translation, dispatch to the target, cache entry) before it touches
\* circuit i+1.
TraceOrdered(trace) ==
    \A p, q \in DOMAIN trace : trace[p].arg < trace[q].arg => p < q
TraceDone(trace, i, dispatch) ==
    /\ \E p \in DOMAIN trace : trace[p] = Ev(dispatch, i)
    /\ \E p \in DOMAIN trace : trace[p] = Ev("cache.set", i)

C9_BatchInOrder ==
    (last.op \in {"process_circuits", "state.process_circuits"}) =>
        LET forest == last.op = "process_circuits"
            circuits == last.args.circuits
            c == IF forest THEN cache ELSE scache
        IN  /\ last.err = "" =>
                /\ Len(last.ret) = Len(circuits)
                /\ \A i \in DOMAIN circuits :
                     /\ last.ret[i] \in DOMAIN c
                     /\ sub[last.ret[i]].circuit = circuits[i]
                     /\ forest => Job(last.ret[i]).program.measures = circuits[i].measures
                     /\ ~forest => c[last.ret[i]].result.state.measures = circuits[i].measures
            /\ TraceOrdered(last.trace)
            /\ \A q \in DOMAIN last.trace :
                  \A i \in 1..(last.trace[q].arg - 1) :
                      TraceDone(last.trace, i,
                                IF forest THEN "qam.execute" ELSE "wavefunction")

C9_Witness ==
    /\ last.op = "process_circuits"
    /\ last.err = ""
    /\ Len(last.ret) = 2
    /\ last.args.circuits[1] # last.args.circuits[2]
    /\ last.args.postprocess

\* C10: for a circuit with at least one measurement, the result get_result
\* returns carries, when it was submitted with postprocess, the classical
\* circuit prepare_circuit produced at submission, and without postprocess
\* no classical circuit, the handle's second component being the text null.
C10_PostprocessRoundTrip ==
    (last.op = "get_result" /\ last.err = "" /\ Registered(last.args.handle)
        /\ Measured(last.args.handle) > 0) =>
        LET h == last.args.handle IN
        IF sub[h].postprocess
        THEN last.ret[1].ppcirc = Some(prepare_circuit(sub[h].circuit)[2])
        ELSE h[2] = <<"null">> /\ last.ret[1].ppcirc = None

C10_Witness ==
    /\ last.op = "get_result"
    /\ last.err = ""
    /\ sub[last.args.handle].postprocess
    /\ Measured(last.args.handle) > 0
    /\ last.ret[1].ppcirc = Some([n_bits |-> MaxBits])

\* ------------------------------------------------ compilation pipeline
IsForestPasses == last.op = "default_compilation_pass" /\ last.err = ""
IsStatePasses == last.op = "state.default_compilation_pass" /\ last.err = ""
IsPasses == IsForestPasses \/ IsStatePasses
Positions(passes, name) == {k \in DOMAIN passes : passes[k].name = name}
\* a sequence without the elements at the positions in `drop`
RECURSIVE Without(_, _, _)
Without(seq, drop, k) ==
    IF k > Len(seq) THEN <<>>
    ELSE (IF k \in drop THEN <<>> ELSE <<seq[k]>>) \o Without(seq, drop, k + 1)

\* C11: at level 0 the pass sequence of either backend holds neither
\* FullPeepholeOptimise nor CliffordSimp; at level 2 ForestBackend's holds a
\* routing pass with noise-aware placement and, after it and before the
\* rebase, KAKDecomposition and CliffordSimp, both with allow_swaps=False.
C11_Level0AndLevel2Passes ==
    /\ (IsPasses /\ last.args.optimisation_level = 0) =>
          /\ Positions(last.ret[1], "FullPeepholeOptimise") = {}
          /\ Positions(last.ret[1], "CliffordSimp") = {}
    /\ (IsForestPasses /\ last.args.optimisation_level = 2) =>
          LET passes == last.ret[1] IN
          \E r, k, c, b \in DOMAIN passes :
              /\ passes[r].name = "CXMappingPass"
              /\ "NoiseAwarePlacement" \in passes[r].opts
              /\ passes[k] = Pass("KAKDecomposition", {"allow_swaps=False"}, {}, <<>>)
              /\ passes[c] = Pass("CliffordSimp", {"allow_swaps=False"}, {}, <<>>)
              /\ Positions(passes, "AutoRebase") = {b}
              /\ r < k /\ r < c /\ k < b /\ c < b

C11_Witness ==
    /\ IsForestPasses
    /\ last.args.optimisation_level = 2
    /\ Positions(last.ret[1], "CliffordSimp") # {}
    /\ info.architecture # {}

\* C12 as stated: ForestBackend's routing pass places naively at levels 0
\* and 1 and noise-aware at level 2 only.
C12_Original ==
    IsForestPasses =>
        \A k \in Positions(last.ret[1], "CXMappingPass") :
            "NoiseAwarePlacement" \in last.ret[1][k].opts
                <=> last.args.optimisation_level = 2

\* C12 as amended: at every level 0, 1, 2 ForestBackend's pass sequence has
\* one routing pass, with noise-aware placement weighted by the averaged
\* node and edge errors of the backend info, directly followed by one
\* NaivePlacementPass on the same architecture.
C12_NoiseAwareAtEveryLevel ==
    IsForestPasses =>
        LET passes == last.ret[1] IN
        \E r \in DOMAIN passes :
            /\ Positions(passes, "CXMappingPass") = {r}
            /\ Positions(passes, "NaivePlacementPass") = {r + 1}
            /\ "NoiseAwarePlacement" \in passes[r].opts
            /\ passes[r].arch = info.architecture
            /\ passes[r].weights = <<info.averaged_node_gate_errors,
                                     info.averaged_edge_gate_errors>>
            /\ passes[r + 1].arch = info.architecture

C12_Witness ==
    /\ IsForestPasses
    /\ last.args.optimisation_level = 0
    /\ \E k \in DOMAIN last.ret[1] :
          /\ "NoiseAwarePlacement" \in last.ret[1][k].opts
          /\ last.ret[1][k].weights = <<"high", "low">>

\* the level-0 sequence of the backend the last call was made on
Level0Passes == IF IsForestPasses THEN passlist(info, 0) ELSE state_passlist(0)

\* C13 as stated: the level-1 sequence is the level-0 sequence plus exactly
\* one SynthesiseTket before the routing (before the rebase on
\* ForestStateBackend) and one EulerAngleReduction after the rebase.
C13_Original ==
    (IsPasses /\ last.args.optimisation_level = 1) =>
        LET passes == last.ret[1] IN
        \E i, j \in DOMAIN passes :
            /\ Len(passes) = Len(Level0Passes) + 2
            /\ passes[i] = Plain("SynthesiseTket")
            /\ passes[j] = EulerAngleReduction
            /\ \A r \in Positions(passes, "CXMappingPass") : i < r
            /\ \A b \in Positions(passes, "AutoRebase") : i < b /\ b < j
            /\ Without(passes, {i, j}, 1) = Level0Passes

\* C13 as amended: on ForestBackend the level-1 sequence is the level-0
\* sequence plus exactly three passes: SynthesiseTket before the routing, a
\* second SynthesiseTket after NaivePlacementPass and before the rebase, and
\* EulerAngleReduction after the rebase; on ForestStateBackend it is the
\* level-0 sequence plus exactly two: SynthesiseTket before the rebase and
\* EulerAngleReduction after it.
C13_Level1Additions ==
    /\ (IsForestPasses /\ last.args.optimisation_level = 1) =>
          LET passes == last.ret[1] IN
          \E i, m, j \in DOMAIN passes :
              /\ Len(passes) = Len(Level0Passes) + 3
              /\ passes[i] = Plain("SynthesiseTket")
              /\ passes[m] = Plain("SynthesiseTket")
              /\ passes[j] = EulerAngleReduction
              /\ \A r \in Positions(passes, "CXMappingPass") : i < r
              /\ \A n \in Positions(passes, "NaivePlacementPass") : n < m
              /\ \A b \in Positions(passes, "AutoRebase") : m < b /\ b < j
              /\ Without(passes, {i, m, j}, 1) = Level0Passes
    /\ (IsStatePasses /\ last.args.optimisation_level = 1) =>
          LET passes == last.ret[1] IN
          \E i, j \in DOMAIN passes :
              /\ Len(passes) = Len(Level0Passes) + 2
              /\ passes[i] = Plain("SynthesiseTket")
              /\ passes[j] = EulerAngleReduction
              /\ \A b \in Positions(passes, "AutoRebase") : i < b /\ b < j
              /\ Without(passes, {i, j}, 1) = Level0Passes

C13_Witness ==
    /\ IsForestPasses
    /\ last.args.optimisation_level = 1
    /\ Cardinality(Positions(last.ret[1], "SynthesiseTket")) = 2

\* C14: on both backends and at every level the rebase targets the gate set
\* {CZ, Rz, Rx}; at levels 1 and 2 EulerAngleReduction is the last pass and
\* comes right after the rebase; at level 0 the rebase is the last pass and
\* there is no EulerAngleReduction.
C14_RebaseThenEuler ==
    IsPasses =>
        LET passes == last.ret[1]
            n == Len(passes)
        IN  /\ \A b \in Positions(passes, "AutoRebase") :
                   passes[b].opts = {"CZ", "Rz", "Rx"}
            /\ last.args.optimisation_level = 0 =>
                   /\ Positions(passes, "AutoRebase") = {n}
                   /\ Positions(passes, "EulerAngleReduction") = {}
            /\ last.args.optimisation_level > 0 =>
                   /\ Positions(passes, "AutoRebase") = {n - 1}
                   /\ Positions(passes, "EulerAngleReduction") = {n}

C14_Witness ==
    /\ IsStatePasses
    /\ last.args.optimisation_level = 2
    /\ last.ret[1][Len(last.ret[1])].name = "EulerAngleReduction"

\* C15: default_compilation_pass of either backend, called with a level
\* outside {0, 1, 2}, raises (AssertionError) before any pass is constructed
\* and returns no pass sequence.
C15_BadLevelRejected ==
    (last.op \in {"default_compilation_pass", "state.default_compilation_pass"}
        /\ last.args.optimisation_level \notin {0, 1, 2}) =>
        /\ last.err = "AssertionError"
        /\ last.ret = <<>>
        /\ last.trace = <<>>

C15_Witness ==
    /\ last.op = "default_compilation_pass"
    /\ last.args.optimisation_level = 3
    /\ last.err = "AssertionError"

\* the call is one of the two expectation methods
IsExpectation ==
    last.op \in {"get_pauli_expectation_value", "get_operator_expectation_value"}

\* a qubit outside the default register occurs in a string of the call
OutsideDefaultRegister ==
    \E term \in last.args.terms : \E q \in DOMAIN term :
        q.reg_name # "q" \/ Len(q.index) # 1

ExpectationInvoked == \E k \in DOMAIN last.trace : last.trace[k].call = "expectation"

C17_SimplifiedProgramSent ==
    (last.op = "process_circuits" /\ last.err = "" /\ last.args.simplify_initial)
        => \A k \in DOMAIN last.ret :
              "SimplifyInitial" \in Job(last.ret[k]).program.passes

\* C18: a submission with valid_check set whose batch holds a circuit that
\* fails the required predicates is refused, on either backend, before
\* anything else happens: nothing is translated, compiled, executed or
\* simulated, no handle is issued and both caches are as they were.
C18_InvalidBatchRefusedFirst ==
    [][ (/\ last'.op \in {"process_circuits", "state.process_circuits"}
         /\ last'.args.valid_check
         /\ last'.args.invalid # None)
        => /\ last'.err = "CircuitNotValidError"
           /\ last'.ret = <<>>
           /\ last'.trace = <<>>
           /\ UNCHANGED <<cache, scache, qam, uuid>> ]_vars

\* a batch of two whose second circuit is the invalid one is refused with
\* the first circuit never dispatched
C18_Witness ==
    /\ last.op = "process_circuits"
    /\ last.args.valid_check
    /\ Len(last.args.circuits) = 2
    /\ last.args.invalid = Some(2)
    /\ last.err = "CircuitNotValidError"
    /\ qam = <<>>

\* C19: when a call of iteration i of ForestBackend.process_circuits raises,
\* the caller gets that error and no handle list; the cache keeps its old
\* entries, has gained the entries of circuits 1..i-1 of the batch, each for
\* a job the target was given, and has none for circuit i or a later one.
C19_FailedBatchNotRolledBack ==
    [][ (last'.op = "process_circuits" /\ last'.err \in ForestStages)
        => LET circuits == last'.args.circuits
               i == last'.trace[Len(last'.trace)].arg
               new == DOMAIN cache' \ DOMAIN cache
           IN  /\ last'.trace[Len(last'.trace)].call = last'.err
               /\ last'.ret = <<>>
               /\ \A h \in DOMAIN cache : h \in DOMAIN cache' /\ cache'[h] = cache[h]
               /\ Cardinality(new) = i - 1
               /\ Len(qam') = Len(qam) + i - 1
               /\ \A k \in 1..(i - 1) : \E h \in new :
                     /\ h[1] = uuid + k
                     /\ sub'[h].circuit = circuits[k]
                     /\ cache'[h].handle = Len(qam) + k ]_vars

\* the execution of the second circuit of a batch failed and the entry of
\* the first is in the cache
C19_Witness ==
    /\ last.op = "process_circuits"
    /\ last.err = "qam.execute"
    /\ Len(last.args.circuits) = 2
    /\ last.trace[Len(last.trace)].arg = 2
    /\ Cardinality(DOMAIN cache) = 1

\* C20: circuit_status, on either backend, changes nothing and calls
\* nothing, and ends as COMPLETED or with one of its errors
\* (PyQuilJobStatusUnavailable or CircuitNotRunError on ForestBackend);
\* get_result(h) keeps the set of entries, every entry other than h's, and
\* the job handle and bit_indices of h's entry: it can only add "result".
C20_ReadsLeaveCacheAlone ==
    [][ /\ last'.op \in {"circuit_status", "state.circuit_status"}
           => /\ UNCHANGED <<cache, scache, qam, uuid>>
              /\ last'.trace = <<>>
              /\ \/ last'.err = "" /\ last'.ret = Some("COMPLETED")
                 \/ /\ last'.ret = <<>>
                    /\ last'.err \in
                         (IF last'.op = "circuit_status"
                          THEN {"PyQuilJobStatusUnavailable", "CircuitNotRunError"}
                          ELSE {"CircuitNotRunError"})
        /\ last'.op = "get_result"
           => LET h == last'.args.handle
              IN  /\ DOMAIN cache' = DOMAIN cache
                  /\ \A k \in DOMAIN cache : k # h => cache'[k] = cache[k]
                  /\ h \in DOMAIN cache
                     => /\ DOMAIN cache[h] \subseteq DOMAIN cache'[h]
                        /\ DOMAIN cache'[h] \subseteq DOMAIN cache[h] \cup {"result"}
                        /\ cache'[h].handle = cache[h].handle
                        /\ cache'[h].bit_indices = cache[h].bit_indices
                  /\ UNCHANGED <<scache, qam, uuid>> ]_vars

\* a result was fetched and stored for one handle while the cache holds
\* another entry that still has none
C20_Witness ==
    /\ last.op = "get_result"
    /\ last.err = ""
    /\ IsFetch(last.trace)
    /\ has_result(cache, last.args.handle)
    /\ \E k \in DOMAIN cache : k # last.args.handle /\ ~has_result(cache, k)

====
